---- MODULE Spec2Model ----
(***************************************************************************)
(* Model of project-folder/server.js: the authoritative server of a        *)
(* two-player paddle game over WebSocket connections.                      *)
(*                                                                         *)
(* State: the connection objects (ws), the registry `games`, the game      *)
(* objects themselves (which closures of timers keep alive after they are  *)
(* deleted from the registry), the matchmaking queue, the running          *)
(* setInterval loops and the pending setTimeout timers.                    *)
(*                                                                         *)
(* Modelling decisions:                                                    *)
(*  - generateGameId() returns an id that was never returned before        *)
(*    (ids 1, 2, ...): collisions of the random 5-character id are left    *)
(*    out.  Reconnect tokens are unique per player for the same reason.    *)
(*  - ws.send() on a socket that is not OPEN delivers nothing and does not *)
(*    throw (ws >= 8).                                                     *)
(*  - ws.terminate() moves an OPEN socket to CLOSING; its 'close' event    *)
(*    is delivered later, as a separate step.                              *)
(*  - numbers of the simulation are fixed point, in units of 1/Scale;      *)
(*    NaN is a distinguished value.                                        *)
(*  - an exception thrown inside a timer callback is uncaught and ends the *)
(*    process (`crashed`); one thrown inside the message handler is caught *)
(*    by its try/catch.                                                    *)
(*  - `out` is the list of messages the last step put on the wire, so that *)
(*    what a handler sends can be stated about the step that sent it;      *)
(*    `last` names the kind of the last step (a message type, "close", a   *)
(*    timer, "tick", or "tickSkipped" for an interval callback that        *)
(*    returned at its pause check).                                        *)
(***************************************************************************)
EXTENDS Integers, Sequences, FiniteSets, TLC

\* ---------------------------------------------------------------- bounds
NumConns   == 3      \* connections ever accepted
MaxGames   == 2      \* ids generateGameId ever returns
LobbyGames == 1      \* ids generateGameId returns in SpecLobby
MultiConns == 2      \* connections accepted in SpecMulti
MaxTick    == 2      \* non-skipped ticks of a game's interval
MaxQueue   == 1      \* length of a game's inputQueue
RallyTicks == 300    \* ticks of a game's interval in SpecScore
MaxTeardowns == 2    \* post-win timers pending at once in SpecScore
MaxPoints  == 12     \* points of one player in SpecPoints
DrainQueue == 3      \* length of a game's inputQueue in SpecDrain

Conns   == 1..NumConns
GameIds == 1..MaxGames
Slots   == {1, 2}

\* --------------------------------------------------- constants (server.js)
POINTS_TO_WIN          == 11
POINTS_TO_CHANGE_SERVE == 2
TABLE_WIDTH            == 420
TABLE_HEIGHT           == 750
PADDLE_HEIGHT          == 22
BALL_SIZE              == 22
Scale                  == 10 * 100     \* fixed-point unit: 1/1000
PADDLE_WIDTH           == TABLE_WIDTH \div 4
NaN                    == -(10 ^ 9)    \* the value NaN, outside every range used

\* inputs drawn by the environment
\* the display name a client sends
ClientName(c) == IF c % 2 = 1 THEN "ann" ELSE "bob"
SeqValues    == {3, 5, 7}
NoData       == NaN - 1               \* payload.data is undefined
\* payload.data.paddle_x: left of the table, on it, right of it, and no number
\* (absent, or a string that is no number)
PaddleInputs == {-50 * Scale, 100 * Scale, 500 * Scale, NaN}

VARIABLES
    sockets,          \* ws objects: readyState, gameId, playerNum, lastProcessedInput
    games,            \* keys of the registry `games`
    heap,             \* the game objects, by the id they were registered under
    nextId,           \* number of ids generateGameId has returned
    matchmakingQueue, \* sequence of [playerName, ws]
    intervals,        \* game.intervalId: the game objects whose setInterval loop runs
    graceTimers,      \* player.reconnectTimer, while pending: <<g, n>> -> captured ws, else 0
    teardownTimers,   \* pending post-win setTimeout callbacks, per game object
    crashed,          \* an uncaught exception has ended the process
    acceptedSeqs,     \* history: the seqs of the input messages each ws had accepted
    out,              \* messages sent by the last step
    last              \* the last step: the message type or the callback that ran

vars == <<sockets, games, heap, nextId, matchmakingQueue, intervals, graceTimers,
          teardownTimers, crashed, acceptedSeqs, out, last>>

\* ---------------------------------------------------------------- objects
NullPlayer ==
    [name |-> "", ws |-> 0, reconnectToken |-> 0, disconnected |-> FALSE]

IsNull(p) == p.ws = 0

\* randomBytes(16): a token no other player has
Token(g, n) == 10 * g + n
\* a token no player was given
BadToken == Token(0, 0)

NewSocket ==
    [readyState |-> "NONE", gameId |-> 0, playerNum |-> 0, lastProcessedInput |-> 0]

paddleInitialX == ((TABLE_WIDTH - PADDLE_WIDTH) * Scale) \div 2
initialBallY   == (TABLE_HEIGHT - 40 - PADDLE_HEIGHT - BALL_SIZE - 5) * Scale

InitialSimState ==
    [p1_x |-> paddleInitialX, p2_x |-> paddleInitialX,
     x |-> paddleInitialX + (PADDLE_WIDTH * Scale) \div 2 - (BALL_SIZE * Scale) \div 2,
     y |-> initialBallY, vx |-> 0, vy |-> -5 * Scale,
     p1 |-> 0, p2 |-> 0, servingPlayer |-> 1, isWaitingToServe |-> TRUE]

createNewGameState(gameId, player1Name, player1Ws) ==
    [player1 |-> [name |-> player1Name, ws |-> player1Ws,
                  reconnectToken |-> Token(gameId, 1), disconnected |-> FALSE],
     player2 |-> NullPlayer,
     status |-> "waiting",
     tick |-> 0,
     inputQueue |-> <<>>,
     state |-> InitialSimState]

\* a faulty variant: the second player is never stored
NewPlayer2_NotStored(gameId, name, ws) == NullPlayer

NewPlayer2(gameId, name, ws) ==
    [name |-> name, ws |-> ws, reconnectToken |-> Token(gameId, 2),
     disconnected |-> FALSE]

\* a slot of the heap that no createNewGameState has filled yet
NoGame == [createNewGameState(0, "", 0) EXCEPT !.status = "none"]

PlayerOf(game, n) == IF n = 1 THEN game.player1 ELSE game.player2

SetPlayer(game, n, p) ==
    IF n = 1 THEN [game EXCEPT !.player1 = p] ELSE [game EXCEPT !.player2 = p]

\* --------------------------------------------------------------- messages
Msg(to, type) ==
    [to |-> to, type |-> type, gameId |-> 0, token |-> 0, name |-> "", num |-> 0,
     flag |-> FALSE]

\* ws.send(msg): put on the wire only by an OPEN socket
Send(socks, m) == IF socks[m.to].readyState = "OPEN" THEN <<m>> ELSE <<>>

safeSend(socks, player, type) ==
    IF ~IsNull(player) /\ ~player.disconnected /\ socks[player.ws].readyState = "OPEN"
    THEN <<Msg(player.ws, type)>>
    ELSE <<>>

GameStarted(to, gameId, token) ==
    [Msg(to, "gameStarted") EXCEPT !.gameId = gameId, !.token = token]

ErrorMsg(to, isReconnectError) == [Msg(to, "error") EXCEPT !.flag = isReconnectError]


\* ------------------------------------------------------------ the registry
\* a faulty variant: the session is deleted, its interval is not cleared
cleanupGame_KeepsInterval(gameId, reg, ivs) ==
    [games |-> reg \ {gameId}, intervals |-> ivs]

\* cleanupGame(gameId): the registry and the running intervals after it
cleanupGame(gameId, reg, ivs) ==
    IF gameId \in reg
    THEN [games |-> reg \ {gameId}, intervals |-> ivs \ {gameId}]
    ELSE [games |-> reg, intervals |-> ivs]

\* startGameLoop(gameId): the intervals after it
startGameLoop(gameId, reg, ivs) ==
    IF gameId \in reg THEN ivs \cup {gameId} ELSE ivs

\* a game object deleted from the registry that no interval or timer closure
\* refers to any more is unreachable: its slot of the heap is cleared
Collect(h, reg, ivs, gt, tt) ==
    [g \in GameIds |->
        IF g \notin reg /\ g \notin ivs /\ tt[g] = 0
           /\ gt[<<g, 1>>] = 0 /\ gt[<<g, 2>>] = 0
        THEN NoGame ELSE h[g]]

\* a faulty variant: the queue is not pruned
FilterSeq_KeepAll(s, keep) == s

RECURSIVE FilterSeq(_, _)
FilterSeq(s, keep) ==
    IF s = <<>> THEN <<>>
    ELSE IF Head(s).ws \in keep THEN <<Head(s)>> \o FilterSeq(Tail(s), keep)
    ELSE FilterSeq(Tail(s), keep)

OpenConns(socks) == {c \in Conns : socks[c].readyState = "OPEN"}

\* ------------------------------------------------------------------- Init
Init ==
    /\ sockets = [c \in Conns |-> NewSocket]
    /\ games = {}
    /\ heap = [g \in GameIds |-> NoGame]
    /\ nextId = 0
    /\ matchmakingQueue = <<>>
    /\ intervals = {}
    /\ graceTimers = [t \in GameIds \X Slots |-> 0]
    /\ teardownTimers = [g \in GameIds |-> 0]
    /\ crashed = FALSE
    /\ acceptedSeqs = [c \in Conns |-> <<>>]
    /\ out = <<>>
    /\ last = "init"

\* wss.on('connection'): connection objects are numbered in order of arrival
Connect(c) ==
    /\ ~crashed
    /\ sockets[c].readyState = "NONE"
    /\ \A d \in Conns : d < c => sockets[d].readyState # "NONE"
    /\ sockets' = [sockets EXCEPT ![c] = [NewSocket EXCEPT !.readyState = "OPEN"]]
    /\ out' = <<>>
    /\ last' = "connection"
    /\ UNCHANGED <<games, heap, nextId, matchmakingQueue, intervals, graceTimers,
                   teardownTimers, crashed, acceptedSeqs>>

CanReceive(c) == ~crashed /\ sockets[c].readyState = "OPEN"

\* ----------------------------------------------------------- handleCreateGame
handleCreateGame(ws, playerName) ==
    /\ CanReceive(ws)
    /\ LET gameId == nextId + 1 IN
        /\ nextId' = gameId
        /\ sockets' = [sockets EXCEPT ![ws].gameId = gameId, ![ws].playerNum = 1]
        /\ heap' = [heap EXCEPT ![gameId] = createNewGameState(gameId, playerName, ws)]
        /\ games' = games \cup {gameId}
        /\ out' = Send(sockets, [Msg(ws, "gameCreated") EXCEPT !.gameId = gameId])
        /\ last' = "create"
    /\ UNCHANGED <<matchmakingQueue, intervals, graceTimers, teardownTimers, crashed, acceptedSeqs>>

\* create without a payload: ws.gameId and ws.playerNum are assigned (line 314)
\* before payload.playerName throws (line 315); nothing is registered
CreateNoPayload(ws) ==
    /\ CanReceive(ws)
    /\ nextId' = nextId + 1
    /\ sockets' = [sockets EXCEPT ![ws].gameId = nextId + 1, ![ws].playerNum = 1]
    /\ out' = <<>>
    /\ last' = "create"
    /\ UNCHANGED <<games, heap, matchmakingQueue, intervals, graceTimers,
                   teardownTimers, crashed, acceptedSeqs>>

\* ------------------------------------------------------------- handleJoinGame
\* a faulty variant: a registered session is joined whatever its status
handleJoinGame_AnyStatus(ws, gameId, playerName) ==
    /\ CanReceive(ws)
    /\ IF gameId \in games
       THEN /\ sockets' = [sockets EXCEPT ![ws].gameId = gameId, ![ws].playerNum = 2]
            /\ heap' = [heap EXCEPT ![gameId].player2 = NewPlayer2(gameId, playerName, ws),
                                    ![gameId].status = "playing"]
            /\ intervals' = startGameLoop(gameId, games, intervals)
            /\ out' = Send(sockets', GameStarted(ws, gameId, Token(gameId, 2)))
       ELSE /\ out' = Send(sockets, ErrorMsg(ws, FALSE))
            /\ UNCHANGED <<sockets, heap, intervals>>
    /\ last' = "join"
    /\ UNCHANGED <<games, nextId, matchmakingQueue, graceTimers, teardownTimers, crashed, acceptedSeqs>>

handleJoinGame(ws, gameId, playerName) ==
    /\ CanReceive(ws)
    /\ IF gameId \in games /\ heap[gameId].status = "waiting"
       THEN LET game == [heap[gameId] EXCEPT
                            !.player2 = NewPlayer2(gameId, playerName, ws),
                            !.status = "playing"]
                socks == [sockets EXCEPT ![ws].gameId = gameId, ![ws].playerNum = 2]
            IN  /\ sockets' = socks
                /\ heap' = [heap EXCEPT ![gameId] = game]
                /\ intervals' = startGameLoop(gameId, games, intervals)
                /\ out' = Send(socks, GameStarted(game.player1.ws, gameId,
                                                  game.player1.reconnectToken))
                          \o Send(socks, GameStarted(ws, gameId, game.player2.reconnectToken))
       ELSE /\ out' = Send(sockets, ErrorMsg(ws, FALSE))
            /\ UNCHANGED <<sockets, heap, intervals>>
    /\ last' = "join"
    /\ UNCHANGED <<games, nextId, matchmakingQueue, graceTimers, teardownTimers, crashed, acceptedSeqs>>

\* ------------------------------------------------------------ handleFindMatch
handleFindMatch(ws, playerName) ==
    /\ CanReceive(ws)
    /\ LET queue == FilterSeq(matchmakingQueue, OpenConns(sockets)) IN
       IF Len(queue) > 0
       THEN LET playerB == Head(queue)
                   gameId == nextId + 1
                   game == [createNewGameState(gameId, playerName, ws) EXCEPT
                               !.player2 = NewPlayer2(gameId, playerB.playerName, playerB.ws),
                               !.status = "playing"]
                   socksA == [sockets EXCEPT ![ws].gameId = gameId, ![ws].playerNum = 1]
                   socks == [socksA EXCEPT ![playerB.ws].gameId = gameId,
                                           ![playerB.ws].playerNum = 2]
               IN  /\ matchmakingQueue' = Tail(queue)
                   /\ nextId' = gameId
                   /\ heap' = [heap EXCEPT ![gameId] = game]
                   /\ games' = games \cup {gameId}
                   /\ sockets' = socks
                   /\ out' = Send(socks, GameStarted(ws, gameId, game.player1.reconnectToken))
                             \o Send(socks, GameStarted(playerB.ws, gameId,
                                                        game.player2.reconnectToken))
                   /\ intervals' = startGameLoop(gameId, games \cup {gameId}, intervals)
                   /\ last' = "findMatch"
       ELSE /\ matchmakingQueue' = Append(queue, [playerName |-> playerName, ws |-> ws])
            /\ out' = Send(sockets, Msg(ws, "waitingForMatch"))
            /\ last' = "findMatch"
            /\ UNCHANGED <<sockets, games, heap, nextId, intervals>>
    /\ UNCHANGED <<graceTimers, teardownTimers, crashed, acceptedSeqs>>

\* ------------------------------------------------------------ handleReconnect
\* the tokens a client can send for game g: those of g's players, which it can
\* hold once they were sent in a gameStarted message, and a token of nobody
\* (a token of another game's player matches neither player of g)
TokensFor(g) ==
    {Token(g, n) : n \in IF IsNull(heap[g].player2) THEN {} ELSE Slots} \cup {BadToken}

\* a faulty variant: any token is taken for player 1's
MatchPlayer_AnyToken(game, reconnectToken) == IF ~IsNull(game.player1) THEN 1 ELSE 0

\* lines 345-353: the slot whose token the message carries, 0 if none
MatchPlayer(game, reconnectToken) ==
    IF ~IsNull(game.player1) /\ game.player1.reconnectToken = reconnectToken THEN 1
    ELSE IF ~IsNull(game.player2) /\ game.player2.reconnectToken = reconnectToken THEN 2
    ELSE 0

\* a faulty variant: any reconnect resumes the game
CanResume_Always(game) == TRUE

\* line 371: no player of the game is marked disconnected any more
CanResume(game) ==
    /\ ~game.player1.disconnected
    /\ IsNull(game.player2) \/ ~game.player2.disconnected

handleReconnect(ws, gameId, reconnectToken) ==
    /\ CanReceive(ws)
    /\ last' = "reconnect"
    /\ UNCHANGED <<games, nextId, matchmakingQueue, intervals, teardownTimers, crashed, acceptedSeqs>>
    /\ IF gameId \notin games
       THEN /\ out' = Send(sockets, ErrorMsg(ws, TRUE))
            /\ UNCHANGED <<sockets, heap, graceTimers>>
       ELSE LET game == heap[gameId]
                playerNum == MatchPlayer(game, reconnectToken)
            IN
            IF playerNum = 0
            THEN /\ out' = Send(sockets, ErrorMsg(ws, TRUE))
                 /\ UNCHANGED <<sockets, heap, graceTimers>>
            ELSE LET player == PlayerOf(game, playerNum)
                     \* player.ws.terminate() of a connection still thought alive
                     socksT == IF ~player.disconnected
                                  /\ sockets[player.ws].readyState = "OPEN"
                               THEN [sockets EXCEPT ![player.ws].readyState = "CLOSING"]
                               ELSE sockets
                     socks == [socksT EXCEPT ![ws].gameId = gameId,
                                             ![ws].playerNum = playerNum]
                     rebound == SetPlayer(game, playerNum,
                                   [player EXCEPT !.ws = ws, !.disconnected = FALSE])
                     success == [Msg(ws, "reconnectSuccess") EXCEPT !.num = playerNum]
                 IN
                 /\ sockets' = socks
                 /\ graceTimers' = [graceTimers EXCEPT ![<<gameId, playerNum>>] = 0]
                 /\ IF IsNull(game.player2)
                    THEN \* game.player2.name throws (line 369); caught at dispatch
                         /\ heap' = [heap EXCEPT ![gameId] = rebound]
                         /\ out' = <<>>
                    ELSE IF CanResume(rebound)
                    THEN /\ heap' = [heap EXCEPT ![gameId] =
                                        [rebound EXCEPT !.status = "playing"]]
                         /\ out' = Send(socks, success)
                                   \o safeSend(socks, rebound.player1, "gameResumed")
                                   \o safeSend(socks, rebound.player2, "gameResumed")
                    ELSE /\ heap' = [heap EXCEPT ![gameId] = rebound]
                         /\ out' = Send(socks, success)

\* ------------------------------------------------------------- ws.on('close')
\* a faulty variant: any close of a connection of the slot counts
IsActiveSocket_Any(player, ws) == ~IsNull(player)

\* line 88: the closing socket is the one the player is bound to
IsActiveSocket(player, ws) == ~IsNull(player) /\ player.ws = ws

Close(ws) ==
    /\ ~crashed
    /\ sockets[ws].readyState \in {"OPEN", "CLOSING"}
    /\ last' = "close"
    /\ matchmakingQueue' = FilterSeq(matchmakingQueue, Conns \ {ws})
    /\ UNCHANGED <<nextId, teardownTimers, crashed, acceptedSeqs>>
    /\ LET socks == [sockets EXCEPT ![ws].readyState = "CLOSED"]
           gameId == sockets[ws].gameId
           playerNum == sockets[ws].playerNum
       IN
       /\ sockets' = socks
       /\ IF gameId \in games
          THEN LET game == heap[gameId]
                   player == PlayerOf(game, playerNum)
                   otherPlayer == PlayerOf(game, 3 - playerNum)
               IN
               IF game.status \in {"playing", "reconnecting"}
               THEN IF IsActiveSocket(player, ws)
                    THEN /\ heap' = [heap EXCEPT ![gameId] =
                                [SetPlayer(game, playerNum,
                                    [player EXCEPT !.disconnected = TRUE])
                                 EXCEPT !.status = "reconnecting"]]
                         /\ out' = IF ~IsNull(otherPlayer)
                                      /\ socks[otherPlayer.ws].readyState = "OPEN"
                                   THEN <<Msg(otherPlayer.ws, "opponentReconnecting")>>
                                   ELSE <<>>
                         /\ graceTimers' = [graceTimers EXCEPT ![<<gameId, playerNum>>] = ws]
                         /\ UNCHANGED <<games, intervals>>
                    ELSE /\ out' = <<>>
                         /\ UNCHANGED <<games, heap, intervals, graceTimers>>
               ELSE /\ games' = cleanupGame(gameId, games, intervals).games
                    /\ intervals' = cleanupGame(gameId, games, intervals).intervals
                    /\ out' = <<>>
                    /\ heap' = Collect(heap, games', intervals', graceTimers,
                                       teardownTimers)
                    /\ UNCHANGED graceTimers
          ELSE /\ out' = <<>>
               /\ UNCHANGED <<games, heap, intervals, graceTimers>>

\* the reconnect timeout of slot playerNum of game object g fires (lines 100-106)
GraceTimeout(g, playerNum) ==
    /\ ~crashed
    /\ graceTimers[<<g, playerNum>>] # 0
    /\ LET ws == graceTimers[<<g, playerNum>>]
           otherPlayer == PlayerOf(heap[g], 3 - playerNum)
           gameId == sockets[ws].gameId
       IN
       /\ out' = IF ~IsNull(otherPlayer) /\ sockets[otherPlayer.ws].readyState = "OPEN"
                 THEN <<Msg(otherPlayer.ws, "opponentLeft")>>
                 ELSE <<>>
       /\ games' = cleanupGame(gameId, games, intervals).games
       /\ intervals' = cleanupGame(gameId, games, intervals).intervals
       /\ last' = "graceTimeout"
    /\ graceTimers' = [graceTimers EXCEPT ![<<g, playerNum>>] = 0]
    /\ heap' = Collect(heap, games', intervals', graceTimers', teardownTimers)
    /\ UNCHANGED <<sockets, nextId, matchmakingQueue, teardownTimers, crashed, acceptedSeqs>>

\* ------------------------------------------------------------ the simulation
\* arithmetic of Number values: an operation on NaN yields NaN, a comparison
\* with NaN is false
IsNaN(a) == a = NaN
Plus(a, b) == IF IsNaN(a) \/ IsNaN(b) THEN NaN ELSE a + b
Minus(a, b) == IF IsNaN(a) \/ IsNaN(b) THEN NaN ELSE a - b
Leq(a, b) == ~IsNaN(a) /\ ~IsNaN(b) /\ a <= b
Geq(a, b) == ~IsNaN(a) /\ ~IsNaN(b) /\ a >= b
MathMin(a, b) == IF IsNaN(a) \/ IsNaN(b) THEN NaN ELSE IF a < b THEN a ELSE b
MathMax(a, b) == IF IsNaN(a) \/ IsNaN(b) THEN NaN ELSE IF a > b THEN a ELSE b
\* a * num / den, rounded to the fixed-point grid
Times(a, num, den) == IF IsNaN(a) THEN NaN ELSE (a * num) \div den

HalfPaddle == (PADDLE_WIDTH * Scale) \div 2
HalfBall   == (BALL_SIZE * Scale) \div 2

\* line 170: the clamped target of one move
targetX(paddle_x) == MathMax(0, MathMin((TABLE_WIDTH - PADDLE_WIDTH) * Scale, paddle_x))

\* processInputs: the paddles after the queue is drained; threw when a move
\* has no input object (move.input.paddle_x of undefined)
RECURSIVE processInputs(_, _)
processInputs(queue, st) ==
    IF queue = <<>> THEN [state |-> st, threw |-> FALSE]
    ELSE LET move == Head(queue) IN
         IF move.input = NoData THEN [state |-> st, threw |-> TRUE]
         ELSE IF move.playerNum = 1
         THEN processInputs(Tail(queue), [st EXCEPT !.p1_x = targetX(move.input)])
         ELSE IF move.playerNum = 2
         THEN processInputs(Tail(queue), [st EXCEPT !.p2_x = targetX(move.input)])
         ELSE processInputs(Tail(queue), st)

\* a faulty variant: the serve changes at every second point at deuce too
updateScore_NoDeuce(st, scoringPlayerNum) ==
    LET s1 == IF scoringPlayerNum = 1 THEN [st EXCEPT !.p1 = @ + 1]
                                      ELSE [st EXCEPT !.p2 = @ + 1]
    IN  IF (s1.p1 + s1.p2) % POINTS_TO_CHANGE_SERVE = 0
        THEN [s1 EXCEPT !.servingPlayer = IF @ = 1 THEN 2 ELSE 1]
        ELSE s1

updateScore(st, scoringPlayerNum) ==
    LET s1 == IF scoringPlayerNum = 1 THEN [st EXCEPT !.p1 = @ + 1]
                                      ELSE [st EXCEPT !.p2 = @ + 1]
        totalPoints == s1.p1 + s1.p2
        isDeuce == s1.p1 >= POINTS_TO_WIN - 1 /\ s1.p2 >= POINTS_TO_WIN - 1
        other == IF s1.servingPlayer = 1 THEN 2 ELSE 1
    IN  IF isDeuce THEN [s1 EXCEPT !.servingPlayer = other]
        ELSE IF totalPoints % POINTS_TO_CHANGE_SERVE = 0
        THEN [s1 EXCEPT !.servingPlayer = other]
        ELSE s1

resetBall(st) ==
    IF st.servingPlayer = 1
    THEN [st EXCEPT !.isWaitingToServe = TRUE, !.vx = 0,
                    !.x = Minus(Plus(st.p1_x, HalfPaddle), HalfBall),
                    !.y = (TABLE_HEIGHT - 40 - PADDLE_HEIGHT - BALL_SIZE - 5) * Scale,
                    !.vy = -5 * Scale]
    ELSE [st EXCEPT !.isWaitingToServe = TRUE, !.vx = 0,
                    !.x = Minus(Plus(st.p2_x, HalfPaddle), HalfBall),
                    !.y = (40 + PADDLE_HEIGHT + 5) * Scale,
                    !.vy = 5 * Scale]

advanceGameState(st) ==
    IF st.isWaitingToServe
    THEN LET servingPaddleX == IF st.servingPlayer = 1 THEN st.p1_x ELSE st.p2_x
         IN  [st EXCEPT !.x = Minus(Plus(servingPaddleX, HalfPaddle), HalfBall)]
    ELSE
    LET moved == [st EXCEPT !.x = Plus(st.x, st.vx), !.y = st.y + st.vy]
        \* wall collisions
        walled ==
            IF Leq(moved.x, 0)
            THEN [moved EXCEPT !.vx = Times(@, -1, 1), !.x = 0]
            ELSE IF Geq(moved.x, (TABLE_WIDTH - BALL_SIZE) * Scale)
            THEN [moved EXCEPT !.vx = Times(@, -1, 1),
                               !.x = (TABLE_WIDTH - BALL_SIZE) * Scale]
            ELSE moved
        \* player 1 (bottom)
        hit1 ==
            IF /\ walled.vy > 0
               /\ walled.y >= (TABLE_HEIGHT - 40 - PADDLE_HEIGHT - BALL_SIZE) * Scale
               /\ walled.y <= (TABLE_HEIGHT - 40 - PADDLE_HEIGHT) * Scale
               /\ Geq(Plus(walled.x, BALL_SIZE * Scale), walled.p1_x)
               /\ Leq(walled.x, Plus(walled.p1_x, PADDLE_WIDTH * Scale))
            THEN [walled EXCEPT
                    !.vy = Times(@, -105, 100),
                    !.vx = Times(Minus(walled.x, Plus(walled.p1_x, HalfPaddle)), 1, 4),
                    !.y = (TABLE_HEIGHT - 40 - PADDLE_HEIGHT - BALL_SIZE - 1) * Scale]
            ELSE walled
        \* player 2 (top)
        hit2 ==
            IF /\ hit1.vy < 0
               /\ hit1.y <= (40 + PADDLE_HEIGHT) * Scale
               /\ hit1.y >= 40 * Scale
               /\ Geq(Plus(hit1.x, BALL_SIZE * Scale), hit1.p2_x)
               /\ Leq(hit1.x, Plus(hit1.p2_x, PADDLE_WIDTH * Scale))
            THEN [hit1 EXCEPT
                    !.vy = Times(@, -105, 100),
                    !.vx = Times(Minus(hit1.x, Plus(hit1.p2_x, HalfPaddle)), 1, 4),
                    !.y = (40 + PADDLE_HEIGHT + 1) * Scale]
            ELSE hit1
    IN  \* scoring
        IF hit2.y < -(BALL_SIZE * Scale) THEN resetBall(updateScore(hit2, 1))
        ELSE IF hit2.y > TABLE_HEIGHT * Scale THEN resetBall(updateScore(hit2, 2))
        ELSE hit2

\* a faulty variant: the margin of two points is not asked for
IsGameOver_NoMargin(st) == st.p1 >= POINTS_TO_WIN \/ st.p2 >= POINTS_TO_WIN

\* the condition of checkGameOver (line 249)
IsGameOver(st) ==
    /\ st.p1 >= POINTS_TO_WIN \/ st.p2 >= POINTS_TO_WIN
    /\ (IF st.p1 >= st.p2 THEN st.p1 - st.p2 ELSE st.p2 - st.p1) >= 2

\* checkGameOver: whether the game is over, and the messages it sends
checkGameOver(socks, game) ==
    IF IsGameOver(game.state)
    THEN LET winnerName == IF game.state.p1 > game.state.p2
                           THEN game.player1.name ELSE game.player2.name
             GameOver(player) ==
                IF safeSend(socks, player, "gameOver") = <<>> THEN <<>>
                ELSE <<[Msg(player.ws, "gameOver") EXCEPT !.name = winnerName]>>
         IN  [over |-> TRUE, sent |-> GameOver(game.player1) \o GameOver(game.player2)]
    ELSE [over |-> FALSE, sent |-> <<>>]

\* broadcastGameState: one state frame to each connected player
broadcastGameState(socks, game) ==
    LET Frame(player) ==
            IF safeSend(socks, player, "state") = <<>> THEN <<>>
            ELSE <<[Msg(player.ws, "state") EXCEPT !.num = game.tick]>>
    IN  Frame(game.player1) \o Frame(game.player2)

\* a faulty variant: the callback never pauses
Paused_Never(game) == FALSE

\* line 155: the pause check
Paused(game) == game.status = "reconnecting"

\* the callback of setInterval in startGameLoop, for the game object g
Tick(g) ==
    /\ ~crashed
    /\ g \in intervals
    /\ UNCHANGED <<sockets, games, nextId, matchmakingQueue, intervals, graceTimers,
                   acceptedSeqs>>
    /\ LET game == heap[g] IN
       IF Paused(game)
       THEN /\ last' = "tickSkipped"
            /\ out' = <<>>
            /\ UNCHANGED <<heap, teardownTimers, crashed>>
       ELSE LET inputs == processInputs(game.inputQueue, game.state)
                after == [game EXCEPT !.tick = @ + 1,
                                      !.inputQueue = <<>>,
                                      !.state = advanceGameState(inputs.state)]
                over == checkGameOver(sockets, after)
            IN  /\ last' = "tick"
                /\ IF inputs.threw
                   THEN /\ crashed' = TRUE
                        /\ out' = <<>>
                        /\ UNCHANGED <<heap, teardownTimers>>
                   ELSE /\ heap' = [heap EXCEPT ![g] = after]
                        /\ crashed' = FALSE
                        /\ IF over.over
                           THEN /\ out' = over.sent
                                /\ teardownTimers' = [teardownTimers EXCEPT ![g] = @ + 1]
                           ELSE /\ out' = broadcastGameState(sockets, after)
                                /\ UNCHANGED teardownTimers

\* the post-win setTimeout of checkGameOver fires (line 256)
Teardown(g) ==
    /\ ~crashed
    /\ teardownTimers[g] > 0
    /\ LET gameId == sockets[heap[g].player1.ws].gameId IN
        /\ games' = cleanupGame(gameId, games, intervals).games
        /\ intervals' = cleanupGame(gameId, games, intervals).intervals
    /\ teardownTimers' = [teardownTimers EXCEPT ![g] = @ - 1]
    /\ heap' = Collect(heap, games', intervals', graceTimers, teardownTimers')
    /\ out' = <<>>
    /\ last' = "teardown"
    /\ UNCHANGED <<sockets, nextId, matchmakingQueue, graceTimers, crashed, acceptedSeqs>>

\* ------------------------------------------------- the other message types
\* a faulty variant: a repeated seq passes the filter
AcceptsInput_Repeats(socket, reg, seq) ==
    socket.gameId \in reg /\ seq >= socket.lastProcessedInput

\* line 63: the filter of input messages
AcceptsInput(socket, reg, seq) ==
    socket.gameId \in reg /\ seq > socket.lastProcessedInput

\* case 'input' (lines 62-67); data is payload.data.paddle_x, or NoData
Input(ws, seq, data) ==
    /\ CanReceive(ws)
    /\ LET gameId == sockets[ws].gameId IN
       IF AcceptsInput(sockets[ws], games, seq)
       THEN /\ heap' = [heap EXCEPT ![gameId].inputQueue =
                            Append(@, [playerNum |-> sockets[ws].playerNum,
                                       input |-> data])]
            /\ sockets' = [sockets EXCEPT ![ws].lastProcessedInput = seq]
            /\ acceptedSeqs' = [acceptedSeqs EXCEPT ![ws] = Append(@, seq)]
       ELSE UNCHANGED <<heap, sockets, acceptedSeqs>>
    /\ out' = <<>>
    /\ last' = "input"
    /\ UNCHANGED <<games, nextId, matchmakingQueue, intervals, graceTimers,
                   teardownTimers, crashed>>

\* case 'serveBall' (lines 68-73); dir is the sign Math.random() picks
ServeBall(ws, dir) ==
    /\ CanReceive(ws)
    /\ LET gameId == sockets[ws].gameId IN
       IF /\ gameId \in games
          /\ heap[gameId].state.isWaitingToServe
          /\ sockets[ws].playerNum = heap[gameId].state.servingPlayer
       THEN heap' = [heap EXCEPT ![gameId].state.isWaitingToServe = FALSE,
                                 ![gameId].state.vx = dir * 4 * Scale]
       ELSE UNCHANGED heap
    /\ out' = <<>>
    /\ last' = "serveBall"
    /\ UNCHANGED <<sockets, games, nextId, matchmakingQueue, intervals, graceTimers,
                   teardownTimers, crashed, acceptedSeqs>>

\* case 'ping'
Ping(ws) ==
    /\ CanReceive(ws)
    /\ out' = Send(sockets, Msg(ws, "pong"))
    /\ last' = "ping"
    /\ UNCHANGED <<sockets, games, heap, nextId, matchmakingQueue, intervals,
                   graceTimers, teardownTimers, crashed, acceptedSeqs>>

\* a message that JSON.parse or a handler's first payload access rejects
\* (unparseable text, join without gameId, findMatch or reconnect without a
\* payload) or whose type matches no case: caught or skipped, nothing changes
Malformed(ws) ==
    /\ CanReceive(ws)
    /\ out' = <<>>
    /\ last' = "malformed"
    /\ UNCHANGED <<sockets, games, heap, nextId, matchmakingQueue, intervals,
                   graceTimers, teardownTimers, crashed, acceptedSeqs>>

\* ------------------------------------------------------------ specifications
\* ticks a game has run when it is near its end: more than any score needs
MidGameTick == 60 * 100

\* bounds on what the environment does
IdsLeft(limit) == nextId < limit
Pairs == FilterSeq(matchmakingQueue, OpenConns(sockets)) # <<>>
TickAllowed(g, limit) == heap[g].status = "reconnecting" \/ heap[g].tick < limit
\* in SpecScore the interval runs MaxTick times before the serve, RallyTicks
\* times while the ball is in flight, and after a win until MaxTeardowns timers
\* are pending
RallyTickAllowed(g) ==
    LET game == heap[g] IN
    IF IsGameOver(game.state) THEN teardownTimers[g] < MaxTeardowns
    ELSE IF ~game.state.isWaitingToServe THEN TickAllowed(g, MidGameTick + RallyTicks)
    ELSE TickAllowed(g, MidGameTick + MaxTick)
QueueRoom(ws) ==
    sockets[ws].gameId \in games => Len(heap[sockets[ws].gameId].inputQueue) < MaxQueue

\* the lobby: connections arriving, forming sessions, leaving and coming back
Lobby(conns, ids) ==
    \/ \E c \in conns : Connect(c)
    \/ \E c \in conns : IdsLeft(ids) /\ handleCreateGame(c, ClientName(c))
    \/ \E c \in conns : IdsLeft(ids) /\ CreateNoPayload(c)
    \/ \E c \in conns, g \in GameIds : handleJoinGame(c, g, ClientName(c))
    \/ \E c \in conns : (Pairs => IdsLeft(ids)) /\ handleFindMatch(c, ClientName(c))
    \/ \E c \in conns, g \in GameIds : \E t \in TokensFor(g) : handleReconnect(c, g, t)
    \/ \E c \in conns : Close(c)
    \/ \E g \in GameIds, n \in Slots : GraceTimeout(g, n)

NextLobby ==
    \/ Lobby(Conns, LobbyGames)
    \/ \E g \in GameIds : TickAllowed(g, MaxTick) /\ Tick(g)

SpecLobby == Init /\ [][NextLobby]_vars

\* connections that use more than one session
NextMulti == Lobby(1..MultiConns, MaxGames)

SpecMulti == Init /\ [][NextMulti]_vars

\* ------------------------------------------------------------- a game in play
\* the server of a game at p1:p2, by the rule of updateScore: the serve has
\* changed at every second point up to 10:10 and at every point since
ServingAt(p1, p2) ==
    LET total == p1 + p2
        deuceAt == 2 * (POINTS_TO_WIN - 1)
        changes == IF total <= deuceAt THEN total \div POINTS_TO_CHANGE_SERVE
                   ELSE (deuceAt \div POINTS_TO_CHANGE_SERVE) + (total - deuceAt)
    IN  IF changes % 2 = 0 THEN 1 ELSE 2

\* the simulation as resetBall leaves it at p1:p2 with the paddles at x1, x2
AwaitingServe(p1, p2, x1, x2) ==
    resetBall([InitialSimState EXCEPT !.p1 = p1, !.p2 = p2, !.p1_x = x1, !.p2_x = x2,
                                      !.servingPlayer = ServingAt(p1, p2)])

StartScores == {<<0, 0>>, <<10, 9>>, <<9, 10>>, <<10, 10>>, <<11, 10>>, <<10, 11>>}
StartPaddles == {<<paddleInitialX, paddleInitialX>>, <<100 * Scale, paddleInitialX>>,
                 <<paddleInitialX, 100 * Scale>>}

\* connections 1 and 2 play game 1 (1 sent create, 2 sent join), connection 3 is
\* open and has sent nothing; the simulation is st
Playing(st, tick) ==
    /\ sockets = [c \in Conns |->
                    IF c = 1 THEN [NewSocket EXCEPT !.readyState = "OPEN", !.gameId = 1,
                                                    !.playerNum = 1]
                    ELSE IF c = 2 THEN [NewSocket EXCEPT !.readyState = "OPEN",
                                                        !.gameId = 1, !.playerNum = 2]
                    ELSE IF c = 3 THEN [NewSocket EXCEPT !.readyState = "OPEN"]
                    ELSE NewSocket]
    /\ games = {1}
    /\ heap = [g \in GameIds |->
                 IF g = 1
                 THEN [createNewGameState(1, ClientName(1), 1) EXCEPT
                          !.player2 = NewPlayer2(1, ClientName(2), 2),
                          !.status = "playing", !.tick = tick, !.state = st]
                 ELSE NoGame]
    /\ nextId = 1
    /\ matchmakingQueue = <<>>
    /\ intervals = {1}
    /\ graceTimers = [t \in GameIds \X Slots |-> 0]
    /\ teardownTimers = [g \in GameIds |-> 0]
    /\ crashed = FALSE
    /\ acceptedSeqs = [c \in Conns |-> <<>>]
    /\ out = <<>>
    /\ last = "init"

InitPlay == Playing(InitialSimState, 0)

\* input messages of every shape against the interval of a game that has just
\* started
NextPlay ==
    \/ \E c \in Conns, seq \in SeqValues, data \in {100 * Scale, NoData} :
            QueueRoom(c) /\ Input(c, seq, data)
    \/ \E c \in Conns, dir \in {1, -1} : ServeBall(c, dir)
    \/ \E c \in Conns : Ping(c)
    \/ \E c \in Conns : Malformed(c)
    \/ \E g \in GameIds : TickAllowed(g, MaxTick) /\ Tick(g)

SpecPlay == InitPlay /\ [][NextPlay]_vars

\* the players of that game leaving and coming back while inputs arrive
NextPause ==
    \/ \E c \in Conns : QueueRoom(c) /\ Input(c, 5, 100 * Scale)
    \/ \E c \in Conns, dir \in {1, -1} : ServeBall(c, dir)
    \/ \E g \in GameIds : TickAllowed(g, MaxTick) /\ Tick(g)
    \/ \E c \in Conns, g \in GameIds : \E t \in TokensFor(g) : handleReconnect(c, g, t)
    \/ \E c \in Conns : Close(c)
    \/ \E g \in GameIds, n \in Slots : GraceTimeout(g, n)

SpecPause == InitPlay /\ [][NextPause]_vars

\* rallies played to their point, from a serve at a score near the end of a game
InitScore ==
    \E sc \in StartScores, pd \in StartPaddles :
        Playing(AwaitingServe(sc[1], sc[2], pd[1], pd[2]), MidGameTick)

NextScore ==
    \/ \E c \in Conns, dir \in {1, -1} :
            /\ sockets[c].gameId \in games
            /\ heap[sockets[c].gameId].state.isWaitingToServe
            /\ ServeBall(c, dir)
    \/ \E g \in GameIds : RallyTickAllowed(g) /\ Tick(g)
    \/ \E g \in GameIds : Teardown(g)

SpecScore == InitScore /\ [][NextScore]_vars

\* paddle positions of every kind sent to a game that has just started
NextPaddle ==
    \/ \E c \in Conns, seq \in SeqValues, data \in PaddleInputs :
            QueueRoom(c) /\ Input(c, seq, data)
    \/ \E g \in GameIds : TickAllowed(g, MaxTick) /\ Tick(g)

SpecPaddle == InitPlay /\ [][NextPaddle]_vars

\* inputs of both players piling up between the ticks of a game
NextDrain ==
    \/ \E c \in Conns, seq \in SeqValues, data \in PaddleInputs \cup {NoData} :
            /\ sockets[c].gameId \in games
            /\ Len(heap[sockets[c].gameId].inputQueue) < DrainQueue
            /\ Input(c, seq, data)
    \/ \E g \in GameIds : TickAllowed(g, MaxTick) /\ Tick(g)

SpecDrain == InitPlay /\ [][NextDrain]_vars

\* the rally served by player 2 at 9:10 with player 1's paddle at 100, one tick
\* before the ball passes the bottom edge: 136 ticks after a serve to the right
BallLeaving ==
    [InitialSimState EXCEPT !.p1 = 9, !.p2 = 10, !.p1_x = 100 * Scale,
                            !.x = 344 * Scale, !.y = 747 * Scale,
                            !.vx = 4 * Scale, !.vy = 5 * Scale,
                            !.servingPlayer = 2, !.isWaitingToServe = FALSE]

\* the winning point and, once a teardown timer is pending, what the
\* connections do during its delay
InitTeardown == Playing(BallLeaving, MidGameTick)

TeardownPending == \E g \in GameIds : teardownTimers[g] > 0

NextTeardown ==
    \/ \E g \in GameIds :
            /\ heap[g].tick >= MidGameTick /\ TickAllowed(g, MidGameTick + MaxTick)
            /\ Tick(g)
    \/ \E g \in GameIds : Teardown(g)
    \/ TeardownPending /\ Lobby(1..MultiConns, MaxGames)

SpecTeardown == InitTeardown /\ [][NextTeardown]_vars

\* the scoring branch of advanceGameState (lines 213-214) taken for player
\* scoringPlayerNum: updateScore, then resetBall
Point(g, scoringPlayerNum) ==
    /\ ~crashed
    /\ g \in intervals
    /\ heap' = [heap EXCEPT ![g].state = resetBall(updateScore(@, scoringPlayerNum))]
    /\ out' = <<>>
    /\ last' = "point"
    /\ UNCHANGED <<sockets, games, nextId, matchmakingQueue, intervals, graceTimers,
                   teardownTimers, crashed, acceptedSeqs>>

\* updateScore and resetBall over every sequence of points from 0-0
NextPoints ==
    \E g \in GameIds, n \in Slots :
        /\ (IF n = 1 THEN heap[g].state.p1 ELSE heap[g].state.p2) < MaxPoints
        /\ Point(g, n)

SpecPoints == InitPlay /\ [][NextPoints]_vars

\* ------------------------------------------------------------------ claims
Registered(g) == g \in games
Slot(g, n) == PlayerOf(heap[g], n)
IsOpen(c) == c # 0 /\ sockets[c].readyState = "OPEN"
SentTo(msgs, c, type) == \E i \in 1..Len(msgs) : msgs[i].to = c /\ msgs[i].type = type

\* the slots of g are filled by two players not marked disconnected, each with
\* an open connection of its own
BothConnected(g) ==
    /\ \A n \in Slots :
        ~IsNull(Slot(g, n)) /\ ~Slot(g, n).disconnected /\ IsOpen(Slot(g, n).ws)
    /\ Slot(g, 1).ws # Slot(g, 2).ws

\* the two halves of the round trip, for the player in slot n of session g
C1_CloseStep(g, n) ==
    LET ws == Slot(g, n).ws
        opponent == Slot(g, 3 - n).ws
    IN  (Registered(g) /\ heap[g].status = "playing" /\ BothConnected(g) /\ Close(ws))
        => /\ heap'[g].status = "reconnecting"
           /\ PlayerOf(heap'[g], n).disconnected
           /\ SentTo(out', opponent, "opponentReconnecting")

C1_ReconnectStep(g, n) ==
    LET opponent == Slot(g, 3 - n) IN
    (/\ Registered(g) /\ heap[g].status = "reconnecting"
     /\ Slot(g, n).disconnected /\ graceTimers[<<g, n>>] # 0
     /\ ~opponent.disconnected /\ IsOpen(opponent.ws)
     /\ \E c \in Conns : handleReconnect(c, g, Slot(g, n).reconnectToken))
    => /\ Registered(g)' /\ heap'[g].status = "playing"
       /\ \A m \in Slots : SentTo(out', PlayerOf(heap'[g], m).ws, "gameResumed")
       /\ graceTimers'[<<g, n>>] = 0

\* C1: reconnect round trip.  When the bound connection (player.ws) of a player
\* of a playing session with both players connected closes, the session becomes
\* reconnecting, that player is marked disconnected and the opponent is sent
\* opponentReconnecting; when a reconnect with that player's token is handled
\* next, before the grace timer fires, the session is playing again, both
\* players are sent gameResumed and no grace timer of the slot stays pending.
C1_ReconnectRoundTrip ==
    [][\A g \in GameIds, n \in Slots : C1_CloseStep(g, n) /\ C1_ReconnectStep(g, n)]_vars

\* C1 for a connection whose own gameId and playerNum name the slot it is bound to
C1_OwnSlotRoundTrip ==
    [][\A g \in GameIds, n \in Slots :
        /\ (/\ ~IsNull(Slot(g, n))
            /\ sockets[Slot(g, n).ws].gameId = g
            /\ sockets[Slot(g, n).ws].playerNum = n) => C1_CloseStep(g, n)
        /\ C1_ReconnectStep(g, n)]_vars

C1_Resumed ==
    \E g \in GameIds :
        /\ Registered(g) /\ last = "reconnect" /\ heap[g].status = "playing"
        /\ \A m \in Slots : SentTo(out, Slot(g, m).ws, "gameResumed")
        /\ Slot(g, 1).ws # Slot(g, 2).ws

\* a player of a playing or reconnecting session whose connection is closed
ClosedPlayer(g, n) ==
    /\ Registered(g) /\ heap[g].status \in {"playing", "reconnecting"}
    /\ ~IsNull(Slot(g, n)) /\ sockets[Slot(g, n).ws].readyState = "CLOSED"

\* C2: grace expiry.  A player of a registered session that is playing or
\* reconnecting whose connection is closed does not stay so forever: the grace
\* timer removes the session, unless a reconnect replaces the connection first.
C2_GraceExpiry ==
    \A g \in GameIds, n \in Slots : ClosedPlayer(g, n) ~> ~ClosedPlayer(g, n)

\* C2, as what every close of a player's connection must leave behind for the
\* session to be removed: a grace timer of the session pending (or the teardown
\* timer of a finished game)
C2_CloseArmsTimer ==
    \A g \in GameIds, n \in Slots :
        ClosedPlayer(g, n) =>
            \/ \E m \in Slots : graceTimers[<<g, m>>] # 0
            \/ teardownTimers[g] > 0

\* timers that are pending fire, and a terminated socket gets its close event
Fairness ==
    /\ \A g \in GameIds, n \in Slots : WF_vars(GraceTimeout(g, n))
    /\ \A c \in Conns : WF_vars(sockets[c].readyState = "CLOSING" /\ Close(c))

FairMulti == Init /\ [][NextMulti]_vars /\ Fairness

\* the slots of registered sessions that connection c is bound to
BoundSlots(c) == {gn \in GameIds \X Slots : Registered(gn[1]) /\ Slot(gn[1], gn[2]).ws = c}

\* C3: a connection is the bound connection (player.ws) of at most one player
\* slot of at most one registered session.
C3_OneSlotPerConnection == \A c \in Conns : Cardinality(BoundSlots(c)) <= 1

\* C4: a registered session is waiting, playing or reconnecting; playing and
\* reconnecting sessions have both slots filled, waiting ones have slot 2 empty.
C4_StatusAndSlots ==
    \A g \in GameIds : Registered(g) =>
        /\ heap[g].status \in {"waiting", "playing", "reconnecting"}
        /\ heap[g].status \in {"playing", "reconnecting"}
            => ~IsNull(heap[g].player1) /\ ~IsNull(heap[g].player2)
        /\ heap[g].status = "waiting" => IsNull(heap[g].player2)

C4_EachStatusSeen ==
    /\ last = "reconnect"
    /\ \E g \in GameIds : Registered(g) /\ heap[g].status = "reconnecting"
                          /\ ~IsNull(heap[g].player2)

\* C5: an interval callback that runs while the session is reconnecting changes
\* nothing of the game (tick, simulation state, inputQueue, players) and sends
\* nothing.
C5_PausedTickIsSkipped ==
    [][\A g \in GameIds :
        (Tick(g) /\ heap[g].status = "reconnecting")
            => heap'[g] = heap[g] /\ out' = <<>> /\ teardownTimers' = teardownTimers]_vars

C5_SkippedWithInputsPending ==
    /\ last = "tickSkipped"
    /\ heap[1].status = "reconnecting" /\ heap[1].inputQueue # <<>>
    /\ ~heap[1].state.isWaitingToServe

\* the reconnect of the claim: g is not registered, or t is neither player's token
ReconnectFails(g, t) ==
    \/ ~Registered(g)
    \/ \A n \in Slots : IsNull(Slot(g, n)) \/ Slot(g, n).reconnectToken # t

\* C6: a reconnect that names no registered session, or carries a token that is
\* neither player's, sends the sender an error with isReconnectError true and
\* changes nothing: the registry, every session (status, bound connections,
\* disconnected flags), the grace timers and every connection's gameId and
\* playerNum stay as they were.
C6_FailedReconnectChangesNothing ==
    [][\A c \in Conns, g \in GameIds : \A t \in TokensFor(g) :
        (handleReconnect(c, g, t) /\ ReconnectFails(g, t))
            => /\ out' = <<ErrorMsg(c, TRUE)>>
               /\ UNCHANGED <<games, heap, sockets, graceTimers, matchmakingQueue,
                              intervals, teardownTimers>>]_vars

C6_RejectedDuringGrace ==
    /\ last = "reconnect"
    /\ \E c \in Conns : out = <<ErrorMsg(c, TRUE)>>
    /\ Registered(1) /\ heap[1].status = "reconnecting"
    /\ \E n \in Slots : Slot(1, n).disconnected /\ graceTimers[<<1, n>>] # 0

\* C7: no inbound message leads to a fatal failure: no interval callback throws
\* because of a message received earlier.
C7_NoFatalFailure == ~crashed

StrictlyIncreasing(s) == \A i, j \in 1..Len(s) : i < j => s[i] < s[j]

\* C8: an input message changes the game only if its seq is greater than every
\* seq accepted from its connection before, and is then appended to the
\* inputQueue; the accepted seqs of a connection are strictly increasing; a
\* stale or repeated seq changes nothing.
C8_InputSeqFilter ==
    [][\A c \in Conns, seq \in SeqValues, data \in {100 * Scale, NoData} :
        Input(c, seq, data) =>
            LET g == sockets[c].gameId
                newer == \A i \in 1..Len(acceptedSeqs[c]) : acceptedSeqs[c][i] < seq
                accepted == heap' # heap
            IN  /\ accepted => newer
                /\ accepted =>
                      heap'[g].inputQueue =
                          Append(heap[g].inputQueue,
                                 [playerNum |-> sockets[c].playerNum, input |-> data])
                /\ accepted <=> acceptedSeqs'[c] = Append(acceptedSeqs[c], seq)
                /\ ~newer => UNCHANGED <<heap, sockets, acceptedSeqs>>
                /\ StrictlyIncreasing(acceptedSeqs'[c])]_vars

\* seqs 5, 3, 7, 7 from connection 1: the inputs with 5 and the first 7 were
\* queued and applied by ticks, the last message changed nothing
C8_Seqs5377 ==
    /\ last = "input"
    /\ acceptedSeqs[1] = <<5, 7>>
    /\ sockets[1].lastProcessedInput = 7
    /\ heap[1].inputQueue = <<>> /\ heap[1].tick = 2
    /\ heap[1].state.p1_x = 100 * Scale

\* the queue without the entries whose connection is not open
PrunedQueue == SelectSeq(matchmakingQueue, LAMBDA e : sockets[e.ws].readyState = "OPEN")

\* C9: findMatch pairs first come, first served.  With the queue pruned of the
\* entries whose connection is not open: if an entry is left, a new session is
\* registered in status playing with the caller in slot 1 and the oldest entry
\* in slot 2, and the queue is the rest of the pruned queue in its order; if
\* none is left, the caller is appended, is sent waitingForMatch, and no
\* session is created.
C9_FindMatchFifo ==
    [][\A c \in Conns :
        handleFindMatch(c, ClientName(c)) =>
            IF PrunedQueue # <<>>
            THEN /\ \E g \in GameIds \ games :
                      /\ games' = games \cup {g}
                      /\ heap'[g].status = "playing"
                      /\ heap'[g].player1.ws = c
                      /\ heap'[g].player1.name = ClientName(c)
                      /\ heap'[g].player2.ws = Head(PrunedQueue).ws
                      /\ heap'[g].player2.name = Head(PrunedQueue).playerName
                 /\ matchmakingQueue' = Tail(PrunedQueue)
            ELSE /\ matchmakingQueue' = <<[playerName |-> ClientName(c), ws |-> c]>>
                 /\ out' = <<Msg(c, "waitingForMatch")>>
                 /\ games' = games /\ heap' = heap]_vars

C9_PairedWithWaiting ==
    /\ last = "findMatch" /\ matchmakingQueue = <<>>
    /\ \E g \in GameIds :
        /\ Registered(g) /\ heap[g].status = "playing"
        /\ Slot(g, 1).ws # Slot(g, 2).ws
        /\ Slot(g, 1).ws = out[1].to /\ Slot(g, 2).ws = out[2].to
        /\ \A n \in Slots : SentTo(out, Slot(g, n).ws, "gameStarted")

\* the win condition as the claim words it, and what a tick sends
C10_Won(p1, p2) == (p1 >= 11 \/ p2 >= 11) /\ (p1 - p2 >= 2 \/ p2 - p1 >= 2)

C10_AllOfType(msgs, type) ==
    /\ Len(msgs) = 2
    /\ \A i \in 1..Len(msgs) : msgs[i].type = type

C10_TickStep(g) ==
    LET st == heap'[g].state
        higher == IF st.p1 > st.p2 THEN heap[g].player1.name ELSE heap[g].player2.name
    IN  /\ C10_Won(st.p1, st.p2) <=> C10_AllOfType(out', "gameOver")
        /\ C10_Won(st.p1, st.p2) <=> teardownTimers'[g] = teardownTimers[g] + 1
        /\ C10_Won(st.p1, st.p2) => \A i \in 1..Len(out') : out'[i].name = higher
        /\ ~C10_Won(st.p1, st.p2) <=> C10_AllOfType(out', "state")
        /\ <<st.p1, st.p2>> \in {<<11, 9>>, <<12, 10>>}
             => /\ C10_AllOfType(out', "gameOver")
                /\ \A i \in 1..Len(out') : out'[i].name = heap[g].player1.name
        /\ <<st.p1, st.p2>> = <<11, 10>>
             => C10_AllOfType(out', "state") /\ teardownTimers' = teardownTimers

\* C10: a tick ends the game exactly when, after its physics step, a score is
\* at least 11 and the scores differ by at least 2; gameOver then names the
\* player with the higher score and the teardown is scheduled; otherwise the
\* state is broadcast.  At 11:9 and 12:10 player 1 wins, at 11:10 play goes on.
C10_WinDetection ==
    [][\A g \in GameIds : Tick(g) => C10_TickStep(g)]_vars

C10_WonAt11to9 ==
    /\ last = "tick"
    /\ heap[1].state.p1 = 11 /\ heap[1].state.p2 = 9
    /\ C10_AllOfType(out, "gameOver")
    /\ \A i \in 1..Len(out) : out[i].name = heap[1].player1.name
    /\ teardownTimers[1] = 1

\* a step that scores a point in game g, and the rule of the serve after it
C11_Scores(g) == <<heap[g].state.p1, heap[g].state.p2>>

C11_PointStep(g) ==
    LET st == heap[g].state
        after == heap'[g].state
        total == after.p1 + after.p2
    IN  /\ \/ after.p1 = st.p1 + 1 /\ after.p2 = st.p2
           \/ after.p2 = st.p2 + 1 /\ after.p1 = st.p1
        /\ after.isWaitingToServe
        /\ after.servingPlayer \in Slots
        /\ after.servingPlayer # st.servingPlayer
             <=> IF after.p1 >= 10 /\ after.p2 >= 10 THEN TRUE ELSE total % 2 = 0
        /\ (after.p1 < 10 \/ after.p2 < 10)
             => after.servingPlayer = 1 + ((total \div 2) % 2)

\* C11: from 0-0 with player 1 serving, every scored point adds exactly 1 to
\* exactly one score and sets isWaitingToServe; the serving player changes after
\* every second point in total while a score is below 10 and after every point
\* once both scores are at least 10.
C11_ServeAlternation ==
    [][\A g \in GameIds :
        (g \in games' /\ C11_Scores(g)' # C11_Scores(g)) => C11_PointStep(g)]_vars

C11_DeuceServe ==
    /\ last = "point"
    /\ C11_Scores(1) = <<11, 10>> /\ heap[1].state.servingPlayer = 2
    /\ heap[1].state.isWaitingToServe

\* the range of a paddle, in fixed-point units
C12_InRange(x) == 0 <= x /\ x <= 315 * Scale

\* C12: in every reachable state both paddles of a registered session lie in
\* [0, 315], whatever paddle_x the clients send.
C12_PaddlesInRange ==
    \A g \in GameIds : Registered(g) =>
        C12_InRange(heap[g].state.p1_x) /\ C12_InRange(heap[g].state.p2_x)

\* C12 for the paddle_x that are numbers: a paddle is in the range or NaN
C12_NumberPaddlesInRange ==
    \A g \in GameIds : Registered(g) =>
        /\ IsNaN(heap[g].state.p1_x) \/ C12_InRange(heap[g].state.p1_x)
        /\ IsNaN(heap[g].state.p2_x) \/ C12_InRange(heap[g].state.p2_x)

C12_ClampedAtBothEnds ==
    /\ last = "tick"
    /\ heap[1].state.p1_x = 0 /\ heap[1].state.p2_x = 315 * Scale

\* C13: a join that names no registered session in status waiting sends the
\* caller an error and changes nothing: the registry, every session, every
\* connection's gameId and playerNum, the queue and the timers are as before.
C13_FailedJoinChangesNothing ==
    [][\A c \in Conns, g \in GameIds :
        (handleJoinGame(c, g, ClientName(c))
            /\ ~(Registered(g) /\ heap[g].status = "waiting"))
            => /\ out' = <<ErrorMsg(c, FALSE)>>
               /\ UNCHANGED <<games, heap, sockets, graceTimers, matchmakingQueue,
                              intervals, teardownTimers>>]_vars

C13_JoinRefusedWhilePlaying ==
    /\ last = "join"
    /\ \E c \in Conns : out = <<ErrorMsg(c, FALSE)>> /\ sockets[c].gameId = 0
    /\ Registered(1) /\ heap[1].status \in {"playing", "reconnecting"}

\* cleanupGame run once more for id g after it ran once, and for an id that is
\* not registered
C14_Idempotent(g) ==
    LET once == cleanupGame(g, games, intervals)
    IN  /\ cleanupGame(g, once.games, once.intervals) = once
        /\ ~Registered(g) => once = [games |-> games, intervals |-> intervals]

\* C14: a step that removes a session from the registry stops its interval; no
\* interval callback runs for a session that is not registered; a removed
\* session does not come back; cleanupGame for an id it has already removed or
\* that was never registered changes nothing.
C14_CleanupStopsScheduler ==
    [][\A g \in GameIds :
        /\ (Registered(g) /\ ~Registered(g)') => g \notin intervals'
        /\ Tick(g) => Registered(g)
        /\ (~Registered(g) /\ g <= nextId) => ~Registered(g)'
        /\ C14_Idempotent(g) /\ C14_Idempotent(0)]_vars

C14_RemovedAfterTicks ==
    /\ last = "graceTimeout"
    /\ nextId = 1 /\ ~Registered(1) /\ intervals = {}
    /\ \E c \in Conns : sockets[c].gameId = 1 /\ sockets[c].readyState = "OPEN"

\* the inputs of slot n in queue q, in their order, and the position a paddle_x
\* that is a number is clamped to
C15_Of(q, n) == SelectSeq(q, LAMBDA move : move.playerNum = n)
C15_Clamped(x) == IF x < 0 THEN 0 ELSE IF x > 315 * Scale THEN 315 * Scale ELSE x
C15_Paddle(st, n) == IF n = 1 THEN st.p1_x ELSE st.p2_x

C15_Drained(g) ==
    LET q == heap[g].inputQueue IN
    /\ heap'[g].inputQueue = <<>>
    /\ heap'[g].tick = heap[g].tick + 1
    /\ \A n \in Slots :
        LET mine == C15_Of(q, n) IN
        IF mine = <<>> THEN C15_Paddle(heap'[g].state, n) = C15_Paddle(heap[g].state, n)
        ELSE LET x == mine[Len(mine)].input IN
             x \notin {NaN, NoData} => C15_Paddle(heap'[g].state, n) = C15_Clamped(x)

\* C15: every interval callback that runs while the session is not reconnecting
\* empties the inputQueue, adds 1 to tick and leaves each paddle at the clamped
\* paddle_x of the last queued input of its slot (where it was, if the slot has
\* none), whenever the inputs arrived.
C15_TickDrainsQueue ==
    [][\A g \in GameIds :
        (Tick(g) /\ heap[g].status # "reconnecting") => C15_Drained(g)]_vars

\* C15 for the queues in which every input has a data object
C15_TickDrainsDataQueue ==
    [][\A g \in GameIds :
        (/\ Tick(g) /\ heap[g].status # "reconnecting"
         /\ \A i \in 1..Len(heap[g].inputQueue) : heap[g].inputQueue[i].input # NoData)
            => C15_Drained(g)]_vars

C15_LastInputWins ==
    /\ last = "tick"
    /\ acceptedSeqs[1] = <<3, 5>> /\ acceptedSeqs[2] = <<3>>
    /\ heap[1].tick = 1 /\ heap[1].inputQueue = <<>>
    /\ heap[1].state.p1_x = 315 * Scale /\ heap[1].state.p2_x = 0

\* connection ws is the bound connection of no slot of session g
C16_Unbound(ws, g) == \A n \in Slots : Slot(g, n).ws # ws

C17_TeardownRemovesWonSession ==
    [][\A g \in GameIds :
        (Teardown(g) /\ Registered(g))
            => /\ ~Registered(g)'
               /\ \A h \in GameIds \ {g} : Registered(h) => Registered(h)']_vars

\* C18: once a tick of session g has detected the win (its teardown timer is
\* pending), no later tick of g sends gameOver to a player or schedules
\* another teardown timer.
C18_GameOverOnce ==
    [][\A g \in GameIds :
        (Tick(g) /\ teardownTimers[g] > 0)
            => /\ teardownTimers'[g] = teardownTimers[g]
               /\ \A i \in 1..Len(out') : out'[i].type # "gameOver"]_vars

\* C19: while the status of a registered session is reconnecting, no step
\* that leaves it registered changes its simulation state (awaitingServe, the
\* ball, the paddles, the scores, the serving player).
C19_SimStateFrozen ==
    [][\A g \in GameIds :
        (Registered(g) /\ Registered(g)' /\ heap[g].status = "reconnecting")
            => heap'[g].state = heap[g].state]_vars

\* C19, for every event other than serveBall: skipped ticks, input messages,
\* closes, reconnects and grace timers leave the simulation state of a
\* reconnecting session as it was.
C19_FrozenButForServe ==
    [][\A g \in GameIds :
        (Registered(g) /\ Registered(g)' /\ heap[g].status = "reconnecting"
            /\ last' # "serveBall")
            => heap'[g].state = heap[g].state]_vars

\* the slots of session g whose player is marked disconnected
C20_Marked(g) == {n \in Slots : ~IsNull(Slot(g, n)) /\ Slot(g, n).disconnected}

\* C20: in every registered session the status is reconnecting exactly when
\* some player is marked disconnected, and a slot has its grace timer pending
\* exactly when its player is marked disconnected (so a playing session has
\* no player marked and no grace timer pending).
C20_StatusMatchesMarks ==
    \A g \in GameIds :
        Registered(g)
            => /\ heap[g].status = "reconnecting" <=> C20_Marked(g) # {}
               /\ \A n \in Slots : graceTimers[<<g, n>>] # 0 <=> n \in C20_Marked(g)

\* both players of a session are marked disconnected, each with its grace
\* timer pending
C20_BothMarked ==
    \E g \in GameIds :
        /\ Registered(g) /\ heap[g].status = "reconnecting"
        /\ C20_Marked(g) = Slots
        /\ \A n \in Slots : graceTimers[<<g, n>>] # 0
====
